---- MODULE Spec2Model ----
(***************************************************************************)
(* kr-stock-flow: the collector (collector.py), its retry/timeout wrapper  *)
(* and the dashboard's loader (dashboard.py), as a state machine.          *)
(*                                                                         *)
(* One main thread runs the program; every wrapped market-data call runs   *)
(* on the single worker of a ThreadPoolExecutor created for that call.     *)
(* Durations are in milliseconds.                                          *)
(***************************************************************************)
EXTENDS Integers, Sequences, FiniteSets, TLC

(***************************************************************************)
(* config.py                                                               *)
(***************************************************************************)
\* config.MARKETS: "KOSPI", "KOSDAQ" (by position)
MARKETS == <<"KOSPI", "KOSDAQ">>

\* The model keeps the first NumInvestors of the 12 entries of config.INVESTORS.
NumInvestors == 2

\* config.INVESTORS, by position
INVESTORS == [i \in 1..NumInvestors |-> i]

\* config.REQUEST_DELAY = 0.2 s
REQUEST_DELAY == 200

\* config.MAX_RETRIES
MAX_RETRIES == 2

\* config.RETRY_BASE_DELAY = 0.5 s
RETRY_BASE_DELAY == 500

\* Largest max_retries argument _retry is exercised with on its own.
MaxRetriesArg == 3

(***************************************************************************)
(* Tables (pandas DataFrames): a function from the index (tickers) to a    *)
(* row; a table is empty iff its index is.                                 *)
(***************************************************************************)
EmptyTable == <<>>

IsEmpty(df) == DOMAIN df = {}

RECURSIVE Pow2(_)
Pow2(n) == IF n <= 0 THEN 1 ELSE 2 * Pow2(n - 1)

(***************************************************************************)
(* What the market-data API (pykrx) can answer.  A call either returns a   *)
(* table, or raises; what it raises is either an instance of               *)
(* concurrent.futures.TimeoutError ("FuturesTimeout") or any other         *)
(* Exception ("Exception").                                                *)
(***************************************************************************)
\* get_market_cap_by_ticker: ticker -> (거래량, 상장주식수); the columns 종가,
\* 시가총액, 거래대금 are copied like 거래량 and are left out.
CapTables ==
  { EmptyTable,
    [t \in {1, 2} |-> IF t = 1 THEN [vol |-> 5, listed |-> 1000]
                               ELSE [vol |-> 0, listed |-> 1000]],
    [t \in {1} |-> [vol |-> 3, listed |-> 0]] }

\* get_market_ohlcv_by_ticker: ticker -> 등락률 (in 0.01 %)
OhlcvTables == { EmptyTable, [t \in {1} |-> 150] }

\* get_market_net_purchases_of_equities: ticker -> (종목명, 순매수거래대금)
NetTables == { EmptyTable, [t \in {1} |-> [name |-> "n1", amt |-> 0 - 7]] }

\* get_market_ticker_name: a name, or "" for an unknown ticker
TickerNames == { "", "nm" }

\* A function handed to _retry on its own
TestTables == { EmptyTable, [t \in {1} |-> 1], [t \in {1} |-> 2] }

Returns(f) ==
  CASE f = "cap" -> CapTables
    [] f = "ohlcv" -> OhlcvTables
    [] f = "probe" -> OhlcvTables
    [] f = "net" -> NetTables
    [] f = "name" -> TickerNames
    [] OTHER -> TestTables

Raises == { "Exception", "FuturesTimeout" }

\* The rows of a spreadsheet saved earlier, as read back
SavedRows == << [ticker |-> 1, market |-> "KOSPI", vol |-> 5] >>

\* The spreadsheet of a date: absent; present with data rows; present with the
\* header rows only; present but not readable as a workbook with sheet "전체"
FileStates == { "absent", "rows", "no_rows", "unreadable" }

NoEntry == [hit |-> FALSE, df |-> <<>>]

\* st.cache_data for a date: no entry, or the table of an earlier collection
CacheStates == { NoEntry, [hit |-> TRUE, df |-> <<>>], [hit |-> TRUE, df |-> SavedRows] }

VARIABLES
  pc,          \* where the main thread is
  func,        \* _retry: the wrapped function
  max_retries, \* _retry: its max_retries argument
  attempt,     \* _retry: the loop variable
  ret,         \* where the running _retry returns to
  retval,      \* what the last _retry returned
  raised,      \* the exception that left _retry ("none" if none did)
  future,      \* the pool's future: [how, val], how the submitted call stands
  inflight,    \* market-data calls started and not yet finished
  invoked,     \* _retry: how many times it has invoked func
  outcomes,    \* _retry: how each attempt so far ended
  sleeps,      \* _retry: the backoff sleeps so far, in order
  gap,         \* ms slept since the last market-data call ended (-1: none ended)
  issued,      \* the market-data calls started so far: <<market index, function>>
  date,        \* collect: its date argument
  trading,     \* collect: what _is_likely_trading_day answered ("unset" before)
  current_step,\* collect: the progress counter
  reports,     \* collect: the numerators of the ratios reported so far
  mi,          \* collect: position of `market` in config.MARKETS
  ii,          \* collect: position of `inv` in config.INVESTORS
  cap_df,      \* collect: cap_df of each market's iteration
  ohlcv_df,    \* collect: ohlcv_df of each market's iteration
  base_df,     \* collect: base_df of each market's iteration
  name_map,    \* collect: name_map of the running iteration
  missing,     \* collect: the tickers still to look up by name
  all_data,    \* collect: the list of finished per-market tables
  result,      \* collect: the table it returns
  caller,      \* who called collect: "main" (main.py) or "dashboard"
  file,        \* dashboard: the spreadsheet of the date under config.DATA_DIR
  cache,       \* dashboard: st.cache_data's entry of _collect_live for the date
  excel_df,    \* dashboard: what _load_from_excel returned
  loaded,      \* dashboard: what load_data returned
  collect_calls, \* dashboard: how often load_data has called collector.collect
  data_dir,    \* whether the directory config.DATA_DIR exists
  sheets,      \* the sheets the spreadsheet of the date holds
  styled,      \* whether the styles have been applied to that spreadsheet
  save_df      \* save_to_excel: its df argument

retryVars == <<func, max_retries, attempt, ret, retval, raised, invoked, outcomes, sleeps>>
poolVars == <<future, inflight>>
progressVars == <<current_step, reports>>
marketVars == <<cap_df, ohlcv_df, base_df, name_map, missing, all_data>>
saveVars == <<data_dir, sheets, styled, save_df>>
dashVars == <<caller, file, cache, excel_df, loaded, collect_calls, saveVars>>
collectVars == <<date, dashVars, trading, progressVars, mi, ii, marketVars, result>>
vars == <<pc, retryVars, poolVars, gap, issued, collectVars>>

NoFuture == [how |-> "none", val |-> EmptyTable]
Running == [how |-> "running", val |-> EmptyTable]

(***************************************************************************)
(* The worker thread: the submitted call runs until it returns or raises.  *)
(***************************************************************************)
CallReturns ==
  /\ future.how = "running"
  /\ \E v \in Returns(func) : future' = [how |-> "returned", val |-> v]
  /\ inflight' = inflight - 1
  /\ gap' = 0
  /\ UNCHANGED <<pc, retryVars, issued, collectVars>>

CallRaises ==
  /\ future.how = "running"
  /\ \E e \in Raises : future' = [how |-> "raised", val |-> e]
  /\ inflight' = inflight - 1
  /\ gap' = 0
  /\ UNCHANGED <<pc, retryVars, issued, collectVars>>

\* time.sleep(ms), as far as the gap since the last call is concerned
Slept(ms) == IF gap < 0 THEN gap ELSE gap + ms

\* a market-data call f starts
Started(f) ==
  /\ inflight' = inflight + 1
  /\ issued' = issued \cup {<<mi, f>>}

\* pool.submit(f, ...): the worker starts the call
Submit(f) ==
  /\ future' = Running
  /\ Started(f)

PoolJoined_NoWait == TRUE

\* ThreadPoolExecutor.__exit__ is shutdown(wait=True): it joins the worker, so
\* it returns only once the submitted call has ended.
PoolJoined == future.how # "running"

(***************************************************************************)
(* _retry (collector.py 49-68)                                             *)
(***************************************************************************)
\* a call _retry(f, ...) whose result is picked up at `site`
RetryCall(f, n, site) ==
  /\ func' = f
  /\ max_retries' = n
  /\ attempt' = 0
  /\ ret' = site
  /\ invoked' = 0
  /\ outcomes' = <<>>
  /\ sleeps' = <<>>
  /\ pc' = "retry_for"

RetryReturn(df) ==
  /\ pc' = ret
  /\ retval' = df
  /\ UNCHANGED <<attempt, sleeps, gap, raised>>

\* line 51-54: the loop head; line 68 when the range is exhausted
Retry_For ==
  /\ pc = "retry_for"
  /\ IF attempt < max_retries
       THEN /\ Submit(func)
            /\ invoked' = invoked + 1
            /\ pc' = "retry_result"
            /\ UNCHANGED <<retval, attempt, sleeps, gap, raised>>
       ELSE /\ RetryReturn(EmptyTable)
            /\ UNCHANGED <<poolVars, invoked, issued>>
  /\ UNCHANGED <<func, max_retries, ret, outcomes, collectVars>>

Retry_Result_NoReturn ==
  /\ pc = "retry_result"
  /\ future.how = "returned"
  /\ pc' = "retry_for"
  /\ attempt' = attempt + 1
  /\ outcomes' = Append(outcomes, "returned")
  /\ UNCHANGED <<func, max_retries, ret, retval, raised, invoked, sleeps, poolVars, gap,
                 issued, collectVars>>

\* line 55: future.result(timeout) has the value; the pool is left, the value returned
Retry_Result ==
  /\ pc = "retry_result"
  /\ future.how = "returned"
  /\ RetryReturn(future.val)
  /\ outcomes' = Append(outcomes, "returned")
  /\ UNCHANGED <<func, max_retries, ret, invoked, poolVars, issued, collectVars>>

\* line 55: future.result(timeout) raises FuturesTimeout, the call still running
Retry_Timeout ==
  /\ pc = "retry_result"
  /\ future.how = "running"
  /\ pc' = "retry_exit"
  /\ outcomes' = Append(outcomes, "timed_out")
  /\ UNCHANGED <<func, max_retries, attempt, ret, retval, raised, invoked, sleeps,
                 poolVars, gap, issued, collectVars>>

Backoff_Flat(k) == RETRY_BASE_DELAY

\* the backoff of an attempt that raised something else than FuturesTimeout
Backoff(k) == RETRY_BASE_DELAY * Pow2(k)

\* line 56-60
HandleTimeout ==
  IF attempt = max_retries - 1
    THEN RetryReturn(EmptyTable)
    ELSE /\ sleeps' = Append(sleeps, RETRY_BASE_DELAY)
         /\ gap' = Slept(RETRY_BASE_DELAY)
         /\ attempt' = attempt + 1
         /\ pc' = "retry_for"
         /\ UNCHANGED <<retval, raised>>

HandleException_Reraise ==
  IF attempt = max_retries - 1
    THEN /\ pc' = "raised"
         /\ raised' = "Exception"
         /\ UNCHANGED <<retval, attempt, sleeps, gap>>
    ELSE /\ sleeps' = Append(sleeps, Backoff(attempt))
         /\ gap' = Slept(Backoff(attempt))
         /\ attempt' = attempt + 1
         /\ pc' = "retry_for"
         /\ UNCHANGED <<retval, raised>>

\* line 61-67
HandleException ==
  IF attempt = max_retries - 1
    THEN RetryReturn(EmptyTable)
    ELSE /\ sleeps' = Append(sleeps, Backoff(attempt))
         /\ gap' = Slept(Backoff(attempt))
         /\ attempt' = attempt + 1
         /\ pc' = "retry_for"
         /\ UNCHANGED <<retval, raised>>

\* line 53: leaving the `with` block on the timeout waits for the worker
Retry_Exit ==
  /\ pc = "retry_exit"
  /\ PoolJoined
  /\ HandleTimeout
  /\ UNCHANGED <<func, max_retries, ret, invoked, outcomes, poolVars, issued, collectVars>>

\* line 55: future.result re-raises what the call raised
Retry_Raised ==
  /\ pc = "retry_result"
  /\ future.how = "raised"
  /\ IF future.val = "FuturesTimeout" THEN HandleTimeout ELSE HandleException
  /\ outcomes' = Append(outcomes, IF future.val = "FuturesTimeout"
                                    THEN "raised_timeout" ELSE "raised")
  /\ UNCHANGED <<func, max_retries, ret, invoked, poolVars, issued, collectVars>>

(***************************************************************************)
(* Dates.  A date string YYYYMMDD is the triple of its fields; strptime    *)
(* accepts it when the month and the day exist, and datetime.weekday() is  *)
(* (proleptic Gregorian ordinal + 6) mod 7, Monday = 0.                    *)
(***************************************************************************)
IsLeap(y) == y % 4 = 0 /\ (y % 100 # 0 \/ y % 400 = 0)

DaysInMonth(y, m) ==
  IF m = 2 THEN (IF IsLeap(y) THEN 29 ELSE 28)
  ELSE IF m \in {4, 6, 9, 11} THEN 30 ELSE 31

DaysBeforeYear(y) ==
  (y - 1) * 365 + (y - 1) \div 4 - (y - 1) \div 100 + (y - 1) \div 400

RECURSIVE DaysBeforeMonth(_, _)
DaysBeforeMonth(y, m) ==
  IF m <= 1 THEN 0 ELSE DaysBeforeMonth(y, m - 1) + DaysInMonth(y, m - 1)

\* datetime.strptime(date_str, "%Y%m%d") does not raise ValueError
Parses(d) == d[2] \in 1..12 /\ d[3] \in 1..DaysInMonth(d[1], d[2])

ToOrdinal(d) == DaysBeforeYear(d[1]) + DaysBeforeMonth(d[1], d[2]) + d[3]

Weekday(d) == (ToOrdinal(d) + 6) % 7

IsWeekend_SundayOnly(d) == Weekday(d) >= 6

\* line 35: dt.weekday() >= 5
IsWeekend(d) == Weekday(d) >= 5

\* The date strings collect is given: a Friday, Saturdays and Sundays (around
\* a leap day, a year end and a century), and a string that is no date.
Dates ==
  { <<2024, 1, 5>>, <<2024, 1, 6>>, <<2024, 1, 7>>, <<2024, 3, 2>>,
    <<2023, 12, 31>>, <<2000, 1, 1>>, <<2100, 1, 3>> , <<2024, 2, 30>> }

(***************************************************************************)
(* Table helpers                                                           *)
(***************************************************************************)
Min(S) == CHOOSE x \in S : \A y \in S : x <= y

RECURSIVE SortedSeq(_)
SortedSeq(S) == IF S = {} THEN <<>> ELSE <<Min(S)>> \o SortedSeq(S \ {Min(S)})

\* p / q rounded to the nearest integer, ties to even (numpy's round)
RoundHalfEven(p, q) ==
  LET n == p \div q
      r == p % q
  IN  IF 2 * r < q THEN n
      ELSE IF 2 * r > q THEN n + 1
      ELSE IF n % 2 = 0 THEN n ELSE n + 1

\* line 131-132: (거래량 / 상장주식수 * 100).round(4).fillna(0), in units of
\* 0.0001 %.  Float division by zero gives inf (NaN for 0 / 0); round keeps
\* both, fillna replaces only NaN.
Turnover(vol, listed) ==
  IF listed = 0
    THEN (IF vol = 0 THEN [kind |-> "num", v |-> 0] ELSE [kind |-> "inf", v |-> 0])
    ELSE [kind |-> "num", v |-> RoundHalfEven(vol * 100 * 10000, listed)]

\* line 117-132: base_df from cap_df and ohlcv_df (종목명 is filled at line 160,
\* the investor columns are appended by the investor loop)
BuildBase(m, cap, ohlcv) ==
  [t \in DOMAIN cap |->
     [market |-> MARKETS[m],
      vol |-> cap[t].vol,
      chg |-> IF t \in DOMAIN ohlcv THEN ohlcv[t] ELSE 0,
      turnover |-> Turnover(cap[t].vol, cap[t].listed),
      name |-> "",
      net |-> <<>>]]

\* line 146-157: the column base_df[inv]
WithNetColumn(base, net_df) ==
  [t \in DOMAIN base |->
     [base[t] EXCEPT !.net =
        Append(@, IF t \in DOMAIN net_df THEN net_df[t].amt ELSE 0)]]

\* line 151-153
HarvestNames(names, net_df) ==
  IF IsEmpty(names) /\ ~IsEmpty(net_df)
    THEN [t \in DOMAIN net_df |-> net_df[t].name]
    ELSE names

\* line 160
WithNames(base, names) ==
  [t \in DOMAIN base |->
     [base[t] EXCEPT !.name = IF t \in DOMAIN names THEN names[t] ELSE ""]]

\* line 162: index[:50]
NAME_LOOKUP_CAP == 50

Missing(base) ==
  LET all == SortedSeq({t \in DOMAIN base : base[t].name = ""})
  IN  SubSeq(all, 1, IF Len(all) < NAME_LOOKUP_CAP THEN Len(all) ELSE NAME_LOOKUP_CAP)

\* line 172-173: reset_index, the index becomes the column 티커
Rows(base) ==
  LET ts == SortedSeq(DOMAIN base)
  IN  [i \in 1..Len(ts) |->
         [ticker |-> ts[i],
          market |-> base[ts[i]].market,
          vol |-> base[ts[i]].vol,
          chg |-> base[ts[i]].chg,
          turnover |-> base[ts[i]].turnover,
          name |-> base[ts[i]].name,
          net |-> base[ts[i]].net]]

\* line 181: pd.concat(all_data, ignore_index=True)
RECURSIVE Concat(_)
Concat(tables) ==
  IF tables = <<>> THEN <<>> ELSE Rows(Head(tables)) \o Concat(Tail(tables))

IsActive(r) == r.vol > 0

\* line 177-192 (the rows; the column order does not change them)
FinalResult(tables) == SelectSeq(Concat(tables), IsActive)

(***************************************************************************)
(* collect (collector.py 71-192) and _is_likely_trading_day (28-46)        *)
(***************************************************************************)
\* line 86
TotalSteps == Len(MARKETS) * (Len(INVESTORS) + 2)

\* line 89-96, n times in a row: each reports the ratio current_step / total_steps
Progress(n) ==
  /\ current_step' = current_step + n
  /\ reports' = reports \o [k \in 1..n |-> current_step + k]

\* collect returns df
CollectReturn(df) ==
  /\ result' = df
  /\ pc' = "collect_done"

\* line 86-100: the pre-check passed, the market loop starts
EnterMarkets ==
  /\ trading' = "yes"
  /\ mi' = 1
  /\ pc' = "market_loop"
  /\ UNCHANGED result

\* line 82, 33-41: the weekend test and the submission of the probe
Collect_Start ==
  /\ pc = "collect"
  /\ IF ~Parses(date)
       THEN /\ EnterMarkets
            /\ UNCHANGED <<func, poolVars, issued>>
       ELSE IF IsWeekend(date)
         THEN /\ trading' = "no"
              /\ CollectReturn(<<>>)
              /\ UNCHANGED <<func, poolVars, issued, mi>>
         ELSE /\ func' = "probe"
              /\ Submit("probe")
              /\ pc' = "probe_result"
              /\ UNCHANGED <<trading, mi, result>>
  /\ UNCHANGED <<max_retries, attempt, ret, retval, raised, invoked, outcomes, sleeps,
                 gap, date, dashVars, progressVars, ii, marketVars>>

\* line 42-43, 82-84: the probe answered in time
Probe_Result ==
  /\ pc = "probe_result"
  /\ future.how = "returned"
  /\ IF IsEmpty(future.val)
       THEN /\ trading' = "no"
            /\ CollectReturn(<<>>)
            /\ UNCHANGED mi
       ELSE EnterMarkets
  /\ UNCHANGED <<retryVars, poolVars, gap, issued, date, dashVars, progressVars, ii, marketVars>>

\* line 42, 44-46: the probe raised
Probe_Raised ==
  /\ pc = "probe_result"
  /\ future.how = "raised"
  /\ EnterMarkets
  /\ UNCHANGED <<retryVars, poolVars, gap, issued, date, dashVars, progressVars, ii, marketVars>>

\* line 42: future.result(timeout=10) raises FuturesTimeout
Probe_Timeout ==
  /\ pc = "probe_result"
  /\ future.how = "running"
  /\ pc' = "probe_exit"
  /\ UNCHANGED <<retryVars, poolVars, gap, issued, collectVars>>

\* line 38, 44-46: the `with` block is left once the worker is joined
Probe_Exit ==
  /\ pc = "probe_exit"
  /\ PoolJoined
  /\ EnterMarkets
  /\ UNCHANGED <<retryVars, poolVars, gap, issued, date, dashVars, progressVars, ii, marketVars>>

\* line 100-103, and 177-192 once the markets are done
Market_Loop ==
  /\ pc = "market_loop"
  /\ IF mi <= Len(MARKETS)
       THEN /\ Progress(1)
            /\ RetryCall("cap", MAX_RETRIES, "after_cap")
            /\ UNCHANGED result
       ELSE /\ CollectReturn(FinalResult(all_data))
            /\ UNCHANGED <<func, max_retries, attempt, ret, invoked, outcomes, sleeps,
                           progressVars>>
  /\ UNCHANGED <<retval, raised, poolVars, gap, issued, date, dashVars, trading, mi, ii, marketVars>>

\* line 103-108
After_Cap ==
  /\ pc = "after_cap"
  /\ cap_df' = [cap_df EXCEPT ![mi] = retval]
  /\ gap' = Slept(REQUEST_DELAY)
  /\ Progress(1)
  /\ RetryCall("ohlcv", MAX_RETRIES, "after_ohlcv")
  /\ UNCHANGED <<retval, raised, poolVars, issued, date, dashVars, trading, mi, ii, ohlcv_df,
                 base_df, name_map, missing, all_data, result>>

SkipMarket_Break ==
  /\ Progress(Len(INVESTORS))
  /\ mi' = Len(MARKETS) + 1
  /\ pc' = "market_loop"
  /\ UNCHANGED <<base_df, name_map, ii>>

SkipMarket_NoProgress ==
  /\ mi' = mi + 1
  /\ pc' = "market_loop"
  /\ UNCHANGED <<base_df, name_map, ii, progressVars>>

\* line 111-114: a progress step for every investor, then the next market
SkipMarket ==
  /\ Progress(Len(INVESTORS))
  /\ mi' = mi + 1
  /\ pc' = "market_loop"
  /\ UNCHANGED <<base_df, name_map, ii>>

\* line 108-135
After_Ohlcv ==
  /\ pc = "after_ohlcv"
  /\ ohlcv_df' = [ohlcv_df EXCEPT ![mi] = retval]
  /\ gap' = Slept(REQUEST_DELAY)
  /\ IF IsEmpty(cap_df[mi]) \/ IsEmpty(retval)
       THEN SkipMarket
       ELSE /\ base_df' = [base_df EXCEPT ![mi] = BuildBase(mi, cap_df[mi], retval)]
            /\ name_map' = EmptyTable
            /\ ii' = 1
            /\ pc' = "inv_loop"
            /\ UNCHANGED <<mi, progressVars>>
  /\ UNCHANGED <<retryVars, poolVars, issued, date, dashVars, trading, cap_df, missing, all_data,
                 result>>

\* line 138-143, and 160-162 once the investors are done
Inv_Loop ==
  /\ pc = "inv_loop"
  /\ IF ii <= Len(INVESTORS)
       THEN /\ Progress(1)
            /\ RetryCall("net", MAX_RETRIES, "after_net")
            /\ UNCHANGED <<base_df, missing>>
       ELSE /\ base_df' = [base_df EXCEPT ![mi] = WithNames(@, name_map)]
            /\ missing' = Missing(base_df'[mi])
            /\ pc' = "name_loop"
            /\ UNCHANGED <<func, max_retries, attempt, ret, invoked, outcomes, sleeps,
                           progressVars>>
  /\ UNCHANGED <<retval, raised, poolVars, gap, issued, date, dashVars, trading, mi, ii, cap_df,
                 ohlcv_df, name_map, all_data, result>>

\* line 140-157
After_Net ==
  /\ pc = "after_net"
  /\ gap' = Slept(REQUEST_DELAY)
  /\ name_map' = HarvestNames(name_map, retval)
  /\ base_df' = [base_df EXCEPT ![mi] = WithNetColumn(@, retval)]
  /\ ii' = ii + 1
  /\ pc' = "inv_loop"
  /\ UNCHANGED <<retryVars, poolVars, issued, date, dashVars, trading, progressVars, mi, cap_df,
                 ohlcv_df, missing, all_data, result>>

\* line 163-165, and 172-175 once no ticker is left to look up
Name_Loop ==
  /\ pc = "name_loop"
  /\ IF missing # <<>>
       THEN /\ Started("name")
            /\ pc' = "name_call"
            /\ UNCHANGED <<mi, all_data>>
       ELSE /\ all_data' = Append(all_data, base_df[mi])
            /\ mi' = mi + 1
            /\ pc' = "market_loop"
            /\ UNCHANGED <<inflight, issued>>
  /\ UNCHANGED <<retryVars, future, gap, date, dashVars, trading, progressVars, ii, cap_df, ohlcv_df,
                 base_df, name_map, missing, result>>

\* line 165-167: stock.get_market_ticker_name(ticker) returns
Name_Returns ==
  /\ pc = "name_call"
  /\ \E name \in TickerNames :
       base_df' = IF name # ""
                    THEN [base_df EXCEPT ![mi][Head(missing)].name = name]
                    ELSE base_df
  /\ missing' = Tail(missing)
  /\ inflight' = inflight - 1
  /\ gap' = 0
  /\ pc' = "name_loop"
  /\ UNCHANGED <<retryVars, future, issued, date, dashVars, trading, progressVars, mi, ii, cap_df,
                 ohlcv_df, name_map, all_data, result>>

\* line 165, 168-169: it raises, which is passed over
Name_Raises ==
  /\ pc = "name_call"
  /\ missing' = Tail(missing)
  /\ inflight' = inflight - 1
  /\ gap' = 0
  /\ pc' = "name_loop"
  /\ UNCHANGED <<retryVars, future, issued, date, dashVars, trading, progressVars, mi, ii, cap_df,
                 ohlcv_df, base_df, name_map, all_data, result>>

CollectNext ==
  \/ Collect_Start
  \/ Probe_Result
  \/ Probe_Raised
  \/ Probe_Timeout
  \/ Probe_Exit
  \/ Market_Loop
  \/ After_Cap
  \/ After_Ohlcv
  \/ Inv_Loop
  \/ After_Net
  \/ Name_Loop
  \/ Name_Returns
  \/ Name_Raises

RetryNext ==
  \/ Retry_For
  \/ Retry_Result
  \/ Retry_Timeout
  \/ Retry_Exit
  \/ Retry_Raised
  \/ CallReturns
  \/ CallRaises

(***************************************************************************)
(* load_data (dashboard.py 20-43)                                          *)
(***************************************************************************)
LoadFromExcel_WrongSheet(f) == <<>>

\* line 20-29: the sheet "전체" of an existing, readable file; an empty table
\* when the file is absent, cannot be read, or holds no data row
LoadFromExcel(f) == IF f = "rows" THEN SavedRows ELSE <<>>

\* line 38-43 with 20-35: the spreadsheet first; _collect_live answers from
\* the cache when it holds the date, and calls collector.collect otherwise
Load_Data ==
  /\ pc = "load_data"
  /\ excel_df' = LoadFromExcel(file)
  /\ IF excel_df' # <<>>
       THEN /\ loaded' = excel_df'
            /\ pc' = "dash_done"
            /\ UNCHANGED collect_calls
       ELSE IF cache.hit
         THEN /\ loaded' = cache.df
              /\ pc' = "dash_done"
              /\ UNCHANGED collect_calls
         ELSE /\ collect_calls' = collect_calls + 1
              /\ pc' = "collect"
              /\ UNCHANGED loaded
  /\ UNCHANGED <<retryVars, poolVars, gap, issued, date, caller, file, cache, trading,
                 progressVars, mi, ii, marketVars, result, saveVars>>

\* line 32-35, 43: collect's table is cached and returned
Collect_Live_Return ==
  /\ pc = "collect_done"
  /\ caller = "dashboard"
  /\ cache' = [hit |-> TRUE, df |-> result]
  /\ loaded' = result
  /\ pc' = "dash_done"
  /\ UNCHANGED <<retryVars, poolVars, gap, issued, date, caller, file, excel_df,
                 collect_calls, trading, progressVars, mi, ii, marketVars, result, saveVars>>

DashNext ==
  \/ Load_Data
  \/ Collect_Live_Return

(***************************************************************************)
(* save_to_excel (excel_writer.py 29-69)                                   *)
(***************************************************************************)
\* config.RANKING_INVESTORS, in order: 외국인, 기관합계, 개인 by their position
\* in config.INVESTORS, each with its sheet
RANKING_INVESTORS ==
  << [investor |-> 2, sheet |-> "foreign_TOP50"],
     [investor |-> 3, sheet |-> "institution_TOP50"],
     [investor |-> 1, sheet |-> "individual_TOP50"] >>

\* the investor columns of a non-empty table
InvestorColumns(df) == 1..Len(df[1].net)

\* line 47-61: the sheet "전체" and a ranking sheet for every ranking investor
\* that is a column of df
SheetsOf(df) ==
  {"all"} \cup { RANKING_INVESTORS[k].sheet : k \in
                   { j \in DOMAIN RANKING_INVESTORS :
                       RANKING_INVESTORS[j].investor \in InvestorColumns(df) } }

\* line 36-42: os.makedirs(DATA_DIR, exist_ok=True), then the test for an
\* empty table
Save_Start ==
  /\ pc = "save"
  /\ data_dir' = TRUE
  /\ pc' = IF save_df = <<>> THEN "save_done" ELSE "save_write"
  /\ UNCHANGED <<retryVars, poolVars, gap, issued, date, caller, file, cache, excel_df,
                 loaded, collect_calls, sheets, styled, save_df, trading, progressVars,
                 mi, ii, marketVars, result>>

\* line 44-61: pd.ExcelWriter writes the workbook anew
Save_Write ==
  /\ pc = "save_write"
  /\ file' = "rows"
  /\ sheets' = SheetsOf(save_df)
  /\ styled' = FALSE
  /\ pc' = "save_style"
  /\ UNCHANGED <<retryVars, poolVars, gap, issued, date, caller, cache, excel_df, loaded,
                 collect_calls, data_dir, save_df, trading, progressVars, mi, ii,
                 marketVars, result>>

\* line 63-69: the workbook is loaded, every sheet styled, and saved again
Save_Style ==
  /\ pc = "save_style"
  /\ styled' = TRUE
  /\ pc' = "save_done"
  /\ UNCHANGED <<retryVars, poolVars, gap, issued, date, caller, file, cache, excel_df,
                 loaded, collect_calls, data_dir, sheets, save_df, trading, progressVars,
                 mi, ii, marketVars, result>>

SaveNext ==
  \/ Save_Start
  \/ Save_Write
  \/ Save_Style

(***************************************************************************)
(* _retry on its own: any function, any max_retries in 0..MaxRetriesArg.   *)
(***************************************************************************)
\* The file system as a call finds it: the spreadsheet of a date lies in
\* DATA_DIR, and a workbook written earlier holds the styled sheet "전체"
\* (named "all" here).
InitFileSystem ==
  /\ sheets = IF file \in {"rows", "no_rows"} THEN {"all"} ELSE {}
  /\ styled = (file \in {"rows", "no_rows"})

InitCollectVars ==
  /\ excel_df = EmptyTable
  /\ loaded = <<>>
  /\ collect_calls = 0
  /\ trading = "unset"
  /\ current_step = 0
  /\ reports = <<>>
  /\ mi = 0
  /\ ii = 0
  /\ cap_df = [m \in DOMAIN MARKETS |-> EmptyTable]
  /\ ohlcv_df = [m \in DOMAIN MARKETS |-> EmptyTable]
  /\ base_df = [m \in DOMAIN MARKETS |-> EmptyTable]
  /\ name_map = EmptyTable
  /\ missing = <<>>
  /\ all_data = <<>>
  /\ result = <<>>
  /\ issued = {}

InitRetry ==
  /\ pc = "retry_for"
  /\ func = "f"
  /\ max_retries \in 0..MaxRetriesArg
  /\ attempt = 0
  /\ ret = "retry_done"
  /\ date = <<2024, 1, 5>>
  /\ caller = "none"
  /\ file = "absent"
  /\ cache = NoEntry
  /\ data_dir = FALSE
  /\ save_df = <<>>
  /\ InitFileSystem
  /\ InitCollectVars
  /\ retval = EmptyTable
  /\ raised = "none"
  /\ future = NoFuture
  /\ inflight = 0
  /\ invoked = 0
  /\ outcomes = <<>>
  /\ sleeps = <<>>
  /\ gap = 0 - 1

SpecRetry == InitRetry /\ [][RetryNext]_vars

(***************************************************************************)
(* collect(date), called as main.py does (line 23).                        *)
(***************************************************************************)
InitRetryVars ==
  /\ func = "none"
  /\ max_retries = MAX_RETRIES
  /\ attempt = 0
  /\ ret = "none"
  /\ retval = EmptyTable
  /\ raised = "none"
  /\ future = NoFuture
  /\ inflight = 0
  /\ invoked = 0
  /\ outcomes = <<>>
  /\ sleeps = <<>>
  /\ gap = 0 - 1

Init ==
  /\ pc = "collect"
  /\ date \in Dates
  /\ caller = "main"
  /\ file = "absent"
  /\ cache = NoEntry
  /\ data_dir = FALSE
  /\ save_df = <<>>
  /\ InitFileSystem
  /\ InitRetryVars
  /\ InitCollectVars

Next == CollectNext \/ RetryNext

Spec == Init /\ [][Next]_vars

(***************************************************************************)
(* load_data(date_str) of the dashboard; the date comes from a date picker *)
(* (dashboard.py 53-59), so it always parses.                              *)
(***************************************************************************)
InitDash ==
  /\ pc = "load_data"
  /\ date \in {d \in Dates : Parses(d)}
  /\ caller = "dashboard"
  /\ file \in FileStates
  /\ cache \in CacheStates
  /\ data_dir = (file # "absent")
  /\ save_df = <<>>
  /\ InitFileSystem
  /\ InitRetryVars
  /\ InitCollectVars

NextDash == DashNext \/ CollectNext \/ RetryNext

SpecDash == InitDash /\ [][NextDash]_vars

(***************************************************************************)
(* save_to_excel(df, date_str) on its own: any table of collect's shape,   *)
(* any state of DATA_DIR and of the date's spreadsheet in it.              *)
(***************************************************************************)
SaveRow(t, nets) ==
  [ticker |-> t, market |-> "KOSPI", vol |-> 5, chg |-> 150,
   turnover |-> [kind |-> "num", v |-> 5000], name |-> "n1", net |-> nets]

SaveTables ==
  { <<>>,
    << SaveRow(1, <<>>) >>,
    << SaveRow(1, <<0 - 7, 0>>) >>,
    << SaveRow(1, <<0 - 7, 0, 4>>), SaveRow(2, <<3, 0, 0 - 4>>) >> }

InitSave ==
  /\ pc = "save"
  /\ date \in Dates
  /\ save_df \in SaveTables
  /\ caller = "none"
  /\ data_dir \in BOOLEAN
  /\ file \in IF data_dir THEN FileStates ELSE {"absent"}
  /\ cache = NoEntry
  /\ InitFileSystem
  /\ InitRetryVars
  /\ InitCollectVars

SpecSave == InitSave /\ [][SaveNext]_vars

(***************************************************************************)
(* Properties of _retry                                                    *)
(***************************************************************************)
Last(s) == s[Len(s)]

NeverReturned == \A i \in 1..Len(outcomes) : outcomes[i] # "returned"

RetryDone == pc = ret /\ ret = "retry_done"

\* C1: when every attempt of the wrapped function fails, _retry has invoked it
\* exactly max_retries times when it returns, it returns an empty table, and
\* at no point does an exception leave _retry.
C1_AlwaysFailing ==
  /\ raised = "none"
  /\ pc # "raised"
  /\ NeverReturned => invoked <= max_retries
  /\ (RetryDone /\ NeverReturned) =>
        /\ invoked = max_retries
        /\ Len(outcomes) = max_retries
        /\ IsEmpty(retval)

C1_Witness ==
  /\ RetryDone
  /\ max_retries = 3
  /\ outcomes = <<"raised", "raised", "raised">>
  /\ invoked = 3

\* C4: when the wrapped function fails on its first N-1 attempts and returns
\* on attempt N (1 <= N <= max_retries), _retry has invoked it exactly N times
\* and returns what the Nth invocation returned.
C4_SucceedsOnNth ==
  (RetryDone /\ outcomes # <<>> /\ Last(outcomes) = "returned") =>
    /\ Len(outcomes) <= max_retries
    /\ \A i \in 1..(Len(outcomes) - 1) : outcomes[i] # "returned"
    /\ invoked = Len(outcomes)
    /\ future.how = "returned"
    /\ retval = future.val

C4_Witness ==
  /\ RetryDone
  /\ outcomes = <<"raised", "timed_out", "returned">>
  /\ invoked = 3
  /\ ~IsEmpty(retval)

TimeoutHandled(o) == o \in {"timed_out", "raised_timeout"}

\* C5 as stated: the sleep after the k-th failed attempt is
\* RETRY_BASE_DELAY * 2^(k-1) whatever made the attempt fail, and no sleep
\* follows the final failed attempt.
C5_DoublingWhateverFailed ==
  /\ \A k \in 1..Len(sleeps) : sleeps[k] = RETRY_BASE_DELAY * Pow2(k - 1)
  /\ Len(sleeps) = attempt
  /\ (RetryDone /\ NeverReturned) => Len(sleeps) = Len(outcomes) - 1 \/ outcomes = <<>>

\* C5 amended: the sleep after the k-th failed attempt that is followed by
\* another attempt is RETRY_BASE_DELAY * 2^(k-1) when the attempt raised an
\* exception other than FuturesTimeout, and RETRY_BASE_DELAY when it ended in
\* the FuturesTimeout handler; no sleep follows the final failed attempt.
C5_DoublingOnException ==
  /\ Len(sleeps) <= Len(outcomes)
  /\ \A k \in 1..Len(sleeps) :
        sleeps[k] = IF TimeoutHandled(outcomes[k])
                      THEN RETRY_BASE_DELAY
                      ELSE RETRY_BASE_DELAY * Pow2(k - 1)
  /\ Len(sleeps) = attempt
  /\ (RetryDone /\ NeverReturned) => Len(sleeps) = Len(outcomes) - 1 \/ outcomes = <<>>

C5_Witness ==
  /\ RetryDone
  /\ outcomes = <<"timed_out", "raised", "raised">>
  /\ sleeps = <<RETRY_BASE_DELAY, 2 * RETRY_BASE_DELAY>>


(***************************************************************************)
(* Properties of collect                                                   *)
(***************************************************************************)
CollectedAll == pc = "collect_done" /\ trading = "yes"

\* C2: when an attempt of a call wrapped by _retry exceeds its timeout, the
\* call is abandoned: _retry goes on (to its next attempt, or to returning
\* the empty table) without waiting for the timed-out call to finish.
C2_TimedOutCallAbandoned == pc = "retry_exit" => ENABLED Retry_Exit

\* C3: at every point of a run of collect at most one market-data call is in
\* flight (the probe, the attempts of _retry, the name lookups).
C3_OneCallInFlight == inflight <= 1

C3_Witness ==
  /\ pc = "retry_result"
  /\ ret = "after_net"
  /\ outcomes = <<"timed_out">>
  /\ future.how = "running"
  /\ inflight = 1

Skipped(m) == IsEmpty(cap_df[m]) \/ IsEmpty(ohlcv_df[m])

RowsOf(m, rows) == SelectSeq(rows, LAMBDA r : r.market = MARKETS[m])

\* C6: when collect is through, every market had its market-cap and OHLCV
\* calls; a market whose market-cap or OHLCV result was empty had no
\* net-purchase and no name-lookup call and has no row in the output; every
\* other market had its net-purchase calls and has exactly the active rows of
\* its own table in the output, whatever happened to the other market.
C6_EmptyMarketSkipped ==
  CollectedAll =>
    \A m \in DOMAIN MARKETS :
      /\ <<m, "cap">> \in issued
      /\ <<m, "ohlcv">> \in issued
      /\ Skipped(m) =>
           /\ <<m, "net">> \notin issued
           /\ <<m, "name">> \notin issued
           /\ RowsOf(m, result) = <<>>
      /\ ~Skipped(m) =>
           /\ <<m, "net">> \in issued
           /\ Len(base_df[m][Min(DOMAIN base_df[m])].net) = Len(INVESTORS)
           /\ RowsOf(m, result) = SelectSeq(Rows(base_df[m]), IsActive)

C6_Witness ==
  /\ CollectedAll
  /\ Skipped(1)
  /\ ~Skipped(2)
  /\ <<2, "name">> \in issued
  /\ result # <<>>
  /\ RowsOf(2, result) = result

\* The Saturdays and Sundays among Dates, by the calendar
WeekendDates ==
  { <<2024, 1, 6>>, <<2024, 1, 7>>, <<2024, 3, 2>>, <<2023, 12, 31>>,
    <<2000, 1, 1>>, <<2100, 1, 3>> }

\* C7: for a date that falls on a Saturday or Sunday, collect issues no
\* market-data call, reports no progress step, and returns an empty table.
C7_WeekendNoCalls ==
  date \in WeekendDates =>
    /\ issued = {}
    /\ inflight = 0
    /\ reports = <<>>
    /\ current_step = 0
    /\ pc \in {"collect", "collect_done"}
    /\ pc = "collect_done" => result = <<>> /\ trading = "no"

C7_Witness ==
  /\ date = <<2024, 1, 6>>
  /\ pc = "collect_done"
  /\ result = <<>>

\* C8: in a run of collect that passes the pre-check, the k-th progress report
\* carries the ratio k / total_steps, no ratio exceeds 1, and when collect is
\* through exactly total_steps = markets x (investors + 2) reports were made,
\* the last with ratio 1.
C8_ProgressSteps ==
  /\ Len(reports) = current_step
  /\ \A k \in 1..Len(reports) : reports[k] = k /\ 0 <= reports[k] /\ reports[k] <= TotalSteps
  /\ CollectedAll =>
       /\ Len(reports) = Len(MARKETS) * (Len(INVESTORS) + 2)
       /\ Last(reports) = TotalSteps

C8_Witness ==
  /\ CollectedAll
  /\ Skipped(1)
  /\ ~Skipped(2)
  /\ Len(reports) = TotalSteps

\* C9: no market-data call starts unless at least REQUEST_DELAY has been slept
\* since the previous market-data call ended.
C9_DelayBetweenCalls ==
  [][inflight' > inflight => (gap < 0 \/ gap >= REQUEST_DELAY)]_vars

(***************************************************************************)
(* Properties of load_data                                                 *)
(***************************************************************************)
\* C10 as stated: whenever the spreadsheet file of the date exists,
\* collector.collect is not called.
C10_FileExistsNoCollect == file # "absent" => collect_calls = 0

\* C10 amended: load_data tries the spreadsheet first and calls
\* collector.collect only if that gave an empty table (no file, an unreadable
\* file, or a file without data rows) and the cache holds no entry; whenever
\* the file exists and loads to a non-empty table, collect is not called and
\* the loaded table is returned.
C10_LoadedRowsNoCollect ==
  /\ collect_calls > 0 =>
       /\ excel_df = <<>>
       /\ file # "rows"
       /\ pc # "dash_done" => ~cache.hit
  /\ file = "rows" =>
       /\ collect_calls = 0
       /\ trading = "unset"
       /\ issued = {}
       /\ pc = "dash_done" => loaded = SavedRows
  /\ (file # "rows" /\ ~cache.hit /\ pc # "load_data") => collect_calls = 1

C10_Witness ==
  /\ pc = "dash_done"
  /\ file = "rows"
  /\ ~cache.hit
  /\ loaded = SavedRows
  /\ collect_calls = 0

(***************************************************************************)
(* Properties of the turnover ratio                                        *)
(***************************************************************************)
MarketIndex(name) == CHOOSE m \in DOMAIN MARKETS : MARKETS[m] = name

\* the market-cap row a row of the output was built from
CapRowOf(r) == cap_df[MarketIndex(r.market)][r.ticker]

\* C12: every row of collect's output whose listed-share count is zero has
\* turnover ratio 0, whatever its volume; every other row has
\* round(volume / listed_shares * 100, 4) (here in units of 0.0001 %).
C12_TurnoverRatio ==
  pc = "collect_done" =>
    \A i \in 1..Len(result) :
      result[i].turnover =
        IF CapRowOf(result[i]).listed = 0
          THEN [kind |-> "num", v |-> 0]
          ELSE [kind |-> "num",
                v |-> RoundHalfEven(CapRowOf(result[i]).vol * 100 * 10000,
                                    CapRowOf(result[i]).listed)]

(***************************************************************************)
(* Properties of save_to_excel                                             *)
(***************************************************************************)
fileSystem == <<data_dir, file, sheets, styled>>

\* C11: save_to_excel called with an empty table creates, modifies or deletes
\* no file and no directory: no step of the call changes the file system.
C11_EmptyTableNoOp == [][save_df = <<>> => UNCHANGED fileSystem]_vars

====
